---- MODULE Spec2Model ----
(***************************************************************************)
(* A model of the phy_gnn training harness:                                *)
(*   - PassiveBiVPreparationDataset._data_generation,                      *)
(*     _down_sampling_node and _generate_distance_based_edges              *)
(*     (task/passive_biv/data/datasets_preparation_hdf5.py),               *)
(*   - BaseTrainer.train, train_step and evaluation (pkg/train/trainer/    *)
(*     base_trainer.py),                                                   *)
(*   - get_repo_path (pkg/utils/io.py),                                    *)
(*   - MaxMinNorm, CovertToModelInputs, ToTensor, TFRecordToTensor,        *)
(*     ClampTensor, SqueezeDataDim and UnSqueezeDataDim                    *)
(*     (pkg/train/module/data_transform.py).                               *)
(* Each component has its own variables and its own specification; a       *)
(* specification holds the variables of the other components at their      *)
(* idle values.                                                            *)
(***************************************************************************)
EXTENDS Integers, Sequences, FiniteSets, TLC

VARIABLES
    \* ---- PassiveBiVPreparationDataset (data_config, data_type) ----
    data_type,                 \* TRAIN_NAME or VALIDATION_NAME
    sample_indices,            \* data_config["sample_indices"]
    chunk_file_size,           \* data_config["chunk_file_size"]
    train_down_sampling_node,  \* None or a node count
    val_down_sampling_node,    \* None or a node count
    num_nodes,                 \* lines of every ct_case_XXXX.csv
    platform,                  \* self.platform
    \* ---- _data_generation ----
    gen_pc,                    \* "start", "sample", "write", "done", "raised"
    gen_err,                   \* the exception _data_generation ended with
    chunks,                    \* the result of np.array_split (line 71)
    chunk_i,                   \* i of the enumerate at line 75
    chunk_pos,                 \* samples of chunks[i] already processed
    datasets,                  \* the list built at lines 76-109
    files,                     \* the HDF5 files written, in order of i
    ds_calls,                  \* _down_sampling_node calls of the last sample
    edge,                      \* the last result of _generate_distance_based_edges
    \* ---- a direct call of _down_sampling_node ----
    dsn_pc,                    \* "call", "returned", "raised"
    dsn_ndim,                  \* len(record_inputs.shape), of record_outputs too
    dsn_inputs,                \* record_inputs, one entry per row
    dsn_outputs,               \* record_outputs, one entry per row
    dsn_result,                \* [err, inputs, outputs]
    \* ---- BaseTrainer: task_trainer and the data loader ----
    infinite,                  \* task_trainer.get("infinite", False)
    per_epoch_steps,           \* task_trainer.get("per_epoch_steps", None)
    epochs,                    \* task_trainer["epochs"]
    init_epoch,                \* what init_model_weights returns
    optimizer_name,            \* optimizer_param["name"]
    loss_name,                 \* loss_param["name"]
    loader_batches,            \* batches of a train loader that ends
    trainer_call,              \* the method called: "train" or "evaluation"
    \* ---- BaseTrainer.train and BaseTrainer.evaluation ----
    train_pc,                  \* the place the called method is at
    train_err,                 \* the exception the called method ended with
    created,                   \* what the called method has created so far
    hook_log,                  \* hooks, training batches, validation passes
    epoch_t,                   \* t of the loop at line 458
    \* ---- BaseTrainer.train_step (the call in progress or the last one) ----
    batch,                     \* the counter of line 563
    fetched,                   \* items the loop at line 569 has taken
    opt_steps,                 \* optimizer.step() calls (line 624)
    batch_end_calls,           \* on_train_batch_end calls (line 640)
    \* ---- get_repo_path and the file system it looks at ----
    path,                      \* the argument, a string of characters
    cwd,                       \* the working directory, as path components
    git_dirs,                  \* the directories that hold a .git entry
    repo_pc,                   \* "start", "loop", "returned"
    script_directory,          \* the local of lines 14-20
    repo_iters,                \* passes of the loop at line 17
    \* ---- MaxMinNorm and the sample it is called on ----
    global_scaling,            \* Norm.global_scaling
    coarse_dim,                \* Norm.coarse_dim
    feature_config,            \* name -> [max_val, min_val], the loaded stats
    context,                   \* sample[0], name -> tensor
    feature,                   \* sample[1], name -> tensor
    norm_pc,                   \* "call", "returned"
    \* ---- a DataTransform called on a sample (context, feature) ----
    xf_context,                \* sample[0], the dict object passed in
    xf_feature,                \* sample[1], the dict object passed in
    xf_given,                  \* the two dicts as they were when passed in
    xf_out,                    \* what __call__ returned, a pair
    xf_err,                    \* the exception __call__ ended with
    xf_pc,                     \* "call", "squeeze", "returned", "raised"
    labels_name,               \* CovertToModelInputs.labels_name
    multi_obj,                 \* CovertToModelInputs.multi_obj
    context_list,              \* ToTensor.context_list, name -> type name
    feature_list,              \* ToTensor.feature_list, name -> type name
    tfrecord,                  \* TRUE for TFRecordToTensor, FALSE for ToTensor
    clamp_config,              \* ClampTensor.clamp_config
    dim_config                 \* (Un)SqueezeDataDim.feature_config, name -> dim

genVars == <<data_type, sample_indices, chunk_file_size, train_down_sampling_node,
             val_down_sampling_node, num_nodes, platform, gen_pc, gen_err, chunks,
             chunk_i, chunk_pos, datasets, files, ds_calls, edge>>
dsnVars == <<dsn_pc, dsn_ndim, dsn_inputs, dsn_outputs, dsn_result>>
trainConfig == <<infinite, per_epoch_steps, epochs, init_epoch, optimizer_name,
                loss_name, loader_batches, trainer_call>>
stepVars == <<batch, fetched, opt_steps, batch_end_calls>>
trainVars == <<trainConfig, train_pc, train_err, created, hook_log, epoch_t, stepVars>>
repoVars == <<path, cwd, git_dirs, repo_pc, script_directory, repo_iters>>
normVars == <<global_scaling, coarse_dim, feature_config, context, feature, norm_pc>>
xfConfig == <<labels_name, multi_obj, context_list, feature_list, tfrecord,
              clamp_config, dim_config>>
xfVars == <<xf_context, xf_feature, xf_given, xf_out, xf_err, xf_pc, xfConfig>>
vars == <<genVars, dsnVars, trainVars, repoVars, normVars, xfVars>>

\* what the actions of one component leave alone
notGen == <<dsnVars, trainVars, repoVars, normVars, xfVars>>
notDsn == <<genVars, trainVars, repoVars, normVars, xfVars>>
notTrain == <<genVars, dsnVars, repoVars, normVars, xfVars>>
notRepo == <<genVars, dsnVars, trainVars, normVars, xfVars>>
notNorm == <<genVars, dsnVars, trainVars, repoVars, xfVars>>
notXf == <<genVars, dsnVars, trainVars, repoVars, normVars>>

\* ------------------------------------------------------------------------
\* Bounds of the model
\* ------------------------------------------------------------------------
MaxSamples == 4
MaxChunk == 2
MaxNodes == 2
MaxRows == 3
MaxEpochs == 2
MaxSteps == 3
MaxBatches == 3
MaxPathLen == 4
MaxWalk == 6
MaxVal == 2
MaxPicks == 2
MaxLeading == 2

\* ------------------------------------------------------------------------
\* Constants of the program
\* ------------------------------------------------------------------------
TRAIN_NAME == "train"
VALIDATION_NAME == "validation"
\* platform.system() on macOS, and on the other platform of the model
DARWIN == "Darwin"
LINUX == "Linux"
\* Python's None, for an Optional[float] that holds counts >= 0 otherwise
None == -1

Min(a, b) == IF a <= b THEN a ELSE b

\* Python truthiness of an Optional number: None and 0 are false
Truthy(x) == x # None /\ x # 0

\* ------------------------------------------------------------------------
\* np.array_split(ary, Nsections) with an integer Nsections
\* ------------------------------------------------------------------------
\* the first (total % n) sections hold total // n + 1 entries, the rest total // n
SectionSize(total, n, j) == (total \div n) + (IF j <= total % n THEN 1 ELSE 0)
SectionStart(total, n, j) == (j - 1) * (total \div n) + Min(j - 1, total % n)
ArraySplit(ary, n) ==
    [j \in 1..n |->
        SubSeq(ary, SectionStart(Len(ary), n, j) + 1,
                    SectionStart(Len(ary), n, j) + SectionSize(Len(ary), n, j))]
\* the Nsections argument at line 72
NumSections(indices, size) == Len(indices) \div size

\* ------------------------------------------------------------------------
\* _down_sampling_node
\* ------------------------------------------------------------------------
\* a 2-D array of n rows: entry r stands for line r of the csv file
Rows(n) == [r \in 1..n |-> r]

\* the columns of an inputs csv (lines 97-99 slice 0:3, 3:11 and 11:17)
InputColumns == 17

\* np.loadtxt (lines 82, 84) squeezes what it read: a csv of two or more
\* lines comes back as a 2-D array of rows, a csv of one line as the 1-D
\* array of its columns, an empty csv as an empty 1-D array
LoadedNdim(n) == IF n >= 2 THEN 2 ELSE 1
LoadRows(n) == [ndim |-> LoadedNdim(n), rows |-> Rows(n)]

\* line 86: record_inputs.shape[0] of a loaded array
Points(ary) ==
    IF ary.ndim = 2 THEN Len(ary.rows)
    ELSE IF Len(ary.rows) = 0 THEN 0
    ELSE InputColumns

\* lines 134-135: the shape of a 1-D array does not unpack into two values
ShapeError(ndim) == IF ndim = 2 THEN "none" ELSE "ValueError"

\* line 93: record_inputs[:, 0:3] indexes two axes
SliceError(ndim) == IF ndim = 2 THEN "none" ELSE "IndexError"

\* a slip in lines 136-138: the count of the other data type
NumDownSampleNode_OtherType(dtype, tk, vk) == IF dtype = TRAIN_NAME THEN vk ELSE tk

\* lines 136-138
NumDownSampleNode(dtype, tk, vk) == IF dtype = TRAIN_NAME THEN tk ELSE vk

\* lines 140-141; comparing None with an int raises TypeError
DownSamplingError(k, n) ==
    IF k = None THEN "TypeError"
    ELSE IF k > n THEN "ValueError"
    ELSE "none"

\* np.random.choice(num_nodes, size=k, replace=False): k distinct positions
Selections(n, k) ==
    {s \in [1..k -> 1..n] : \A a, b \in 1..k : a # b => s[a] # s[b]}

\* what one call may draw: nothing when the call raises before line 143
Draws(k, ndim, n) ==
    IF ShapeError(ndim) = "none" /\ DownSamplingError(k, n) = "none"
    THEN Selections(n, k)
    ELSE {<<>>}

\* a slip in line 145: the first rows of record_outputs, not the selected ones
TakeOutputs_FirstRows(outputs, select_nodes) ==
    [i \in 1..Len(select_nodes) |-> outputs[i]]

\* record_outputs[select_nodes, :]
TakeOutputs(outputs, select_nodes) ==
    [i \in 1..Len(select_nodes) |-> outputs[select_nodes[i]]]
\* record_inputs[select_nodes, :]
TakeInputs(inputs, select_nodes) ==
    [i \in 1..Len(select_nodes) |-> inputs[select_nodes[i]]]

\* lines 119-145 with the drawn select_nodes; ndim is the number of axes of
\* record_inputs and record_outputs, and what is returned is 2-D
DownSamplingNode(dtype, tk, vk, ndim, inputs, outputs, select_nodes) ==
    LET k == NumDownSampleNode(dtype, tk, vk)
        e == IF ShapeError(ndim) # "none" THEN ShapeError(ndim)
             ELSE DownSamplingError(k, Len(inputs))
    IN  IF e # "none"
        THEN [err |-> e, inputs |-> <<>>, outputs |-> <<>>]
        ELSE [err |-> "none",
              inputs |-> TakeInputs(inputs, select_nodes),
              outputs |-> TakeOutputs(outputs, select_nodes)]

\* ------------------------------------------------------------------------
\* _generate_distance_based_edges
\* ------------------------------------------------------------------------
\* data_config["sections"] and data_config["nodes_per_sections"] (lines
\* 47-48)
sections == <<0, 2>>
nodes_per_sections == <<2>>

\* The two edge routines of pkg.data_utils.edge_generation connect nodes
\* within sections by their pairwise distances, selecting at random (line
\* 46).  What an array they return holds is known only as far as what it was
\* made of: the coordinates and the two settings passed in, and which of the
\* selections the routine may make it made.
EdgePicks == 1..MaxPicks
EdgeArray(coords, secs, per_section, pick) ==
    [of |-> coords, sections |-> secs, nodes_per_sections |-> per_section,
     pick |-> pick, dtype |-> "as made"]

\* generate_distance_based_edges_nb(node_coords, sections, nodes_per_section)
GenerateDistanceBasedEdgesNb(coords, secs, per_section, pick) ==
    EdgeArray(coords, secs, per_section, pick)

\* generate_distance_based_edges_ny(batched coords, indices, sections,
\* nodes_per_section): the length of the leading axis of what it returns is
\* not known either, so it is any of LeadingAxes
GenerateDistanceBasedEdgesNy(batched, indices, secs, per_section, pick, leading) ==
    [b \in 1..leading |->
        [EdgeArray(batched, secs, per_section, pick) EXCEPT
            !.of = [batch |-> batched, indices |-> indices, entry |-> b - 1]]]

\* the leading axes the routine of a platform may return: line 174 gives the
\* numba result exactly one
LeadingAxes(plat) == IF plat = DARWIN THEN 0..MaxLeading ELSE {1}

\* astype(np.int32) of an array
AsInt32(ary) == [ary EXCEPT !.dtype = "int32"]

\* lines 147-176: node_coords[np.newaxis, :, :] and indices [0] go into the
\* numpy version, whose result is returned as it is; the result of the numba
\* version gets its leading axis and its dtype at line 174
GenerateDistanceBasedEdges(plat, coords, pick, leading) ==
    IF plat = DARWIN
    THEN GenerateDistanceBasedEdgesNy(<<coords>>, <<0>>, sections,
                                      nodes_per_sections, pick, leading)
    ELSE <<AsInt32(GenerateDistanceBasedEdgesNb(coords, sections,
                                                nodes_per_sections, pick))>>

\* ------------------------------------------------------------------------
\* _data_generation, lines 86-91 for one sample
\* ------------------------------------------------------------------------
\* line 88
FirstCallCond(dtype, vk) == dtype = VALIDATION_NAME \/ Truthy(vk)
\* line 90
SecondCallCond(dtype, tk) == dtype = TRAIN_NAME /\ Truthy(tk)

\* the first call of a sample returns, on a csv of n lines
FirstCallReturns(dtype, tk, vk, n) ==
    /\ ShapeError(LoadedNdim(n)) = "none"
    /\ DownSamplingError(NumDownSampleNode(dtype, tk, vk), n) = "none"

\* rows a second call would see after a first call with k <= n
RowsAfterFirst(dtype, tk, vk, n) ==
    IF FirstCallCond(dtype, vk) /\ FirstCallReturns(dtype, tk, vk, n)
    THEN NumDownSampleNode(dtype, tk, vk)
    ELSE n

\* the axes a second call would see: two after a first call, else as loaded
NdimAfterFirst(dtype, vk, n) == IF FirstCallCond(dtype, vk) THEN 2 ELSE LoadedNdim(n)

\* the draws of the first and of the second call of one sample
FirstDraws(dtype, tk, vk, n) ==
    IF FirstCallCond(dtype, vk)
    THEN Draws(NumDownSampleNode(dtype, tk, vk), LoadedNdim(n), n)
    ELSE {<<>>}
SecondDraws(dtype, tk, vk, n) ==
    IF SecondCallCond(dtype, tk)
         /\ (FirstCallCond(dtype, vk) => FirstCallReturns(dtype, tk, vk, n))
    THEN Draws(NumDownSampleNode(dtype, tk, vk), NdimAfterFirst(dtype, vk, n),
               RowsAfterFirst(dtype, tk, vk, n))
    ELSE {<<>>}

\* lines 82-93: load the sample, down-sample it as the two ifs say, and take
\* the coordinate columns of what is left
SampleRows(dtype, tk, vk, n, s1, s2) ==
    LET Call(r, s) ==
            LET d == DownSamplingNode(dtype, tk, vk, r.ndim, r.inputs, r.outputs, s)
            IN  [err |-> d.err, ndim |-> 2, inputs |-> d.inputs, outputs |-> d.outputs]
        loaded == [err |-> "none", ndim |-> LoadRows(n).ndim,
                   inputs |-> LoadRows(n).rows, outputs |-> LoadRows(n).rows]
        r1 == IF FirstCallCond(dtype, vk) THEN Call(loaded, s1) ELSE loaded
        c1 == IF FirstCallCond(dtype, vk) THEN 1 ELSE 0
        r2 == IF r1.err = "none" /\ SecondCallCond(dtype, tk)
              THEN Call(r1, s2)
              ELSE r1
        c2 == IF r1.err = "none" /\ SecondCallCond(dtype, tk) THEN 1 ELSE 0
        e == IF r2.err # "none" THEN r2.err ELSE SliceError(r2.ndim)
    IN  [err |-> e,
         inputs |-> IF e = "none" THEN r2.inputs ELSE <<>>,
         outputs |-> IF e = "none" THEN r2.outputs ELSE <<>>,
         calls |-> c1 + c2]

\* line 93: record_inputs[:, 0:3] of the record_inputs lines 88-91 leave
EdgeCoords(loaded, sampled) == sampled

\* lines 95-109: the group stored for sample idx; edges is edge[0]
SampleDict(idx, points, rows, edges) ==
    [index |-> idx, points |-> points,
     node_rows |-> rows.inputs, label_rows |-> rows.outputs,
     edges_indices |-> AsInt32(edges)]

\* ------------------------------------------------------------------------
\* Inputs
\* ------------------------------------------------------------------------
\* sample_indices: a run of consecutive case numbers, ascending or descending
SampleList(first, len, up) ==
    [j \in 1..len |-> IF up THEN first + j - 1 ELSE first + len - j]
SampleLists == {SampleList(0, len, up) : len \in 0..MaxSamples, up \in BOOLEAN}
NodeCounts == {None} \cup (0..(MaxNodes + 1))
RowCounts == {None} \cup (0..(MaxRows + 1))

GenIdle ==
    /\ data_type = TRAIN_NAME
    /\ sample_indices = <<>>
    /\ chunk_file_size = 1
    /\ train_down_sampling_node = None
    /\ val_down_sampling_node = None
    /\ num_nodes = 0
    /\ platform = LINUX
    /\ gen_pc = "idle"
    /\ gen_err = "none"
    /\ chunks = <<>>
    /\ chunk_i = 0
    /\ chunk_pos = 0
    /\ datasets = <<>>
    /\ files = <<>>
    /\ ds_calls = 0
    /\ edge = <<>>

DsnIdle ==
    /\ dsn_pc = "idle"
    /\ dsn_ndim = 2
    /\ dsn_inputs = <<>>
    /\ dsn_outputs = <<>>
    /\ dsn_result = [err |-> "none", inputs |-> <<>>, outputs |-> <<>>]

TrainIdle ==
    /\ infinite = FALSE
    /\ per_epoch_steps = None
    /\ epochs = 0
    /\ init_epoch = 0
    /\ optimizer_name = "adam"
    /\ loss_name = "mse"
    /\ loader_batches = 0
    /\ trainer_call = "train"
    /\ train_pc = "idle"
    /\ train_err = "none"
    /\ created = {}
    /\ hook_log = <<>>
    /\ epoch_t = 0
    /\ batch = 0
    /\ fetched = 0
    /\ opt_steps = 0
    /\ batch_end_calls = 0

RepoIdle ==
    /\ path = <<>>
    /\ cwd = <<>>
    /\ git_dirs = {}
    /\ repo_pc = "idle"
    /\ script_directory = <<>>
    /\ repo_iters = 0

NormIdle ==
    /\ global_scaling = TRUE
    /\ coarse_dim = FALSE
    /\ feature_config = <<>>
    /\ context = <<>>
    /\ feature = <<>>
    /\ norm_pc = "idle"

XfIdle ==
    /\ xf_context = <<>>
    /\ xf_feature = <<>>
    /\ xf_given = <<>>
    /\ xf_out = <<>>
    /\ xf_err = "none"
    /\ xf_pc = "idle"
    /\ labels_name = {}
    /\ multi_obj = FALSE
    /\ context_list = <<>>
    /\ feature_list = <<>>
    /\ tfrecord = FALSE
    /\ clamp_config = <<>>
    /\ dim_config = <<>>

\* ------------------------------------------------------------------------
\* _data_generation as a process
\* ------------------------------------------------------------------------
GenInit ==
    /\ data_type \in {TRAIN_NAME, VALIDATION_NAME}
    /\ sample_indices \in SampleLists
    /\ chunk_file_size \in 1..MaxChunk
    /\ train_down_sampling_node \in NodeCounts
    /\ val_down_sampling_node \in NodeCounts
    /\ num_nodes \in 1..MaxNodes
    /\ platform \in {DARWIN, LINUX}
    /\ gen_pc = "start"
    /\ gen_err = "none"
    /\ chunks = <<>>
    /\ chunk_i = 0
    /\ chunk_pos = 0
    /\ datasets = <<>>
    /\ files = <<>>
    /\ ds_calls = 0
    /\ edge = <<>>
    /\ DsnIdle
    /\ TrainIdle
    /\ RepoIdle
    /\ NormIdle
    /\ XfIdle

genConfig == <<data_type, sample_indices, chunk_file_size, train_down_sampling_node,
               val_down_sampling_node, num_nodes, platform>>

\* lines 71-73: np.array_split raises ValueError for Nsections <= 0
GenSplit ==
    /\ gen_pc = "start"
    /\ IF NumSections(sample_indices, chunk_file_size) <= 0
       THEN /\ gen_pc' = "raised"
            /\ gen_err' = "ValueError"
            /\ UNCHANGED chunks
       ELSE /\ gen_pc' = "sample"
            /\ gen_err' = "none"
            /\ chunks' = ArraySplit(sample_indices,
                                    NumSections(sample_indices, chunk_file_size))
    /\ UNCHANGED <<genConfig, chunk_i, chunk_pos, datasets, files, ds_calls, edge,
                   notGen>>

\* lines 78-109: one pass of the inner loop; rows.err is what lines 82-93
\* raise before the edges are made, and edge[0] of an array with an empty
\* leading axis raises IndexError (line 101)
GenSample ==
    /\ gen_pc = "sample"
    /\ chunk_pos < Len(chunks[chunk_i + 1])
    /\ \E s1 \in FirstDraws(data_type, train_down_sampling_node,
                            val_down_sampling_node, num_nodes) :
       \E s2 \in SecondDraws(data_type, train_down_sampling_node,
                             val_down_sampling_node, num_nodes) :
       \E pick \in EdgePicks : \E leading \in LeadingAxes(platform) :
         LET idx == chunks[chunk_i + 1][chunk_pos + 1]
             rows == SampleRows(data_type, train_down_sampling_node,
                                val_down_sampling_node, num_nodes, s1, s2)
             made == GenerateDistanceBasedEdges(
                         platform, EdgeCoords(LoadRows(num_nodes).rows, rows.inputs),
                         pick, leading)
         IN  /\ ds_calls' = rows.calls
             /\ IF rows.err # "none"
                THEN /\ gen_pc' = "raised"
                     /\ gen_err' = rows.err
                     /\ UNCHANGED <<datasets, chunk_pos, edge>>
                ELSE IF Len(made) = 0
                THEN /\ gen_pc' = "raised"
                     /\ gen_err' = "IndexError"
                     /\ edge' = made
                     /\ UNCHANGED <<datasets, chunk_pos>>
                ELSE /\ edge' = made
                     /\ datasets' = Append(datasets,
                                           SampleDict(idx, Points(LoadRows(num_nodes)), rows,
                                                      made[1]))
                     /\ chunk_pos' = chunk_pos + 1
                     /\ gen_pc' = IF chunk_pos + 1 = Len(chunks[chunk_i + 1])
                                  THEN "write" ELSE "sample"
                     /\ UNCHANGED gen_err
    /\ UNCHANGED <<genConfig, chunks, chunk_i, files, notGen>>

\* lines 111-117: write file i, then the next chunk or the end
GenWriteFile ==
    /\ gen_pc = "write"
    /\ files' = Append(files, datasets)
    /\ datasets' = <<>>
    /\ chunk_pos' = 0
    /\ chunk_i' = chunk_i + 1
    /\ gen_pc' = IF chunk_i + 1 = Len(chunks) THEN "done" ELSE "sample"
    /\ UNCHANGED <<genConfig, gen_err, chunks, ds_calls, edge, notGen>>

GenNext == GenSplit \/ GenSample \/ GenWriteFile

SpecGen == GenInit /\ [][GenNext]_vars

\* ------------------------------------------------------------------------
\* A direct call of _down_sampling_node, on arrays as np.loadtxt returns
\* them or as an earlier call left them (2-D)
\* ------------------------------------------------------------------------
DsnInit ==
    /\ data_type \in {TRAIN_NAME, VALIDATION_NAME}
    /\ train_down_sampling_node \in RowCounts
    /\ val_down_sampling_node \in RowCounts
    /\ \E n \in 0..MaxRows : \E nd \in {LoadedNdim(n), 2} :
         /\ num_nodes = n
         /\ dsn_ndim = nd
         /\ dsn_inputs = Rows(n)
         /\ dsn_outputs = Rows(n)
    /\ dsn_pc = "call"
    /\ dsn_result = [err |-> "none", inputs |-> <<>>, outputs |-> <<>>]
    /\ sample_indices = <<>>
    /\ chunk_file_size = 1
    /\ platform = LINUX
    /\ gen_pc = "idle"
    /\ gen_err = "none"
    /\ chunks = <<>>
    /\ chunk_i = 0
    /\ chunk_pos = 0
    /\ datasets = <<>>
    /\ files = <<>>
    /\ ds_calls = 0
    /\ edge = <<>>
    /\ TrainIdle
    /\ RepoIdle
    /\ NormIdle
    /\ XfIdle

DsnCall ==
    /\ dsn_pc = "call"
    /\ \E s \in Draws(NumDownSampleNode(data_type, train_down_sampling_node,
                                        val_down_sampling_node),
                      dsn_ndim, Len(dsn_inputs)) :
         /\ dsn_result' = DownSamplingNode(data_type, train_down_sampling_node,
                                           val_down_sampling_node, dsn_ndim,
                                           dsn_inputs, dsn_outputs, s)
         /\ dsn_pc' = IF dsn_result'.err = "none" THEN "returned" ELSE "raised"
    /\ UNCHANGED <<dsn_ndim, dsn_inputs, dsn_outputs, notDsn>>

DsnNext == DsnCall

SpecDsn == DsnInit /\ [][DsnNext]_vars

\* ------------------------------------------------------------------------
\* BaseTrainer.train, train_step and evaluation
\* ------------------------------------------------------------------------
\* a slip in line 385: the test on infinite inverted
InfiniteWithoutSteps_Inverted(steps, inf) == (~Truthy(steps)) /\ ~inf

\* line 385: not task_trainer.get("per_epoch_steps", None) and
\* task_trainer.get("infinite", False)
InfiniteWithoutSteps(steps, inf) == (~Truthy(steps)) /\ inf

\* a slip in line 570: the loop left one batch late
BreakCond_OneLate(b, steps) == steps # None /\ b = steps + 1

\* line 570: batch == per_epoch_steps (never true for None)
BreakCond(b, steps) == steps # None /\ b = steps

\* lines 257-263: any name but "adam" raises; the message reads a key the
\* optimizer_param of a config keyed by "name" does not hold
OptimizeError(name) == IF name = "adam" THEN "none" ELSE "KeyError"

\* lines 285-293: the second test is an 'if', so its else branch also takes "mse"
LossError(name) == IF name = "euclidean_distance_mse" THEN "none" ELSE "ValueError"

\* lines 288-291: whether create_loss has set self.loss when it ends; for
\* "mse" line 289 sets it before the else branch of line 292 raises
LossSet(name) == name \in {"mse", "euclidean_distance_mse"}

\* a slip in line 458: the range ends one epoch early
InEpochRange_OneShort(t, n) == t < n

\* line 458: t in range(init_epoch + 1, epoch + 1), for a t >= init_epoch + 1
InEpochRange(t, n) == t <= n

\* the train loader yields another item: always when the dataset is infinite
\* (the case of the comment at line 384), else while batches are left
LoaderHasNext(inf, n, taken) == inf \/ taken < n

\* the batches the train loader can yield within per_epoch_steps = steps
StepsPossible(inf, n, steps) == IF inf THEN steps ELSE Min(steps, n)

TrainInit ==
    /\ infinite \in BOOLEAN
    /\ per_epoch_steps \in {None} \cup (0..MaxSteps)
    /\ epochs \in 0..MaxEpochs
    /\ init_epoch \in 0..1
    /\ optimizer_name \in {"adam", "sgd"}
    /\ loss_name \in {"mse", "euclidean_distance_mse"}
    /\ loader_batches \in 0..MaxBatches
    /\ (infinite => loader_batches = 0)
    /\ trainer_call \in {"train", "evaluation"}
    /\ train_pc = (IF trainer_call = "train" THEN "check" ELSE "eval_model")
    /\ train_err = "none"
    /\ created = {}
    /\ hook_log = <<>>
    /\ epoch_t = 0
    /\ batch = 0
    /\ fetched = 0
    /\ opt_steps = 0
    /\ batch_end_calls = 0
    /\ GenIdle
    /\ DsnIdle
    /\ RepoIdle
    /\ NormIdle
    /\ XfIdle

\* lines 377-386
TrainCheck ==
    /\ train_pc = "check"
    /\ IF InfiniteWithoutSteps(per_epoch_steps, infinite)
       THEN train_pc' = "raised" /\ train_err' = "ValueError"
       ELSE train_pc' = "dataset" /\ train_err' = "none"
    /\ UNCHANGED <<notTrain, trainConfig, created, hook_log, epoch_t, stepVars>>

\* lines 388-424
TrainCreateDataset ==
    /\ train_pc = "dataset"
    /\ created' = created \cup {"dataset", "data_loader"}
    /\ train_pc' = "model"
    /\ UNCHANGED <<notTrain, trainConfig, train_err, hook_log, epoch_t, stepVars>>

\* lines 426-440
TrainCreateModel ==
    /\ train_pc = "model"
    /\ IF OptimizeError(optimizer_name) # "none"
       THEN /\ created' = created \cup {"model"}
            /\ train_pc' = "raised"
            /\ train_err' = OptimizeError(optimizer_name)
       ELSE /\ created' = created \cup {"model", "optimizer", "scheduler"}
            /\ train_pc' = "loss"
            /\ UNCHANGED train_err
    /\ UNCHANGED <<notTrain, trainConfig, hook_log, epoch_t, stepVars>>

\* lines 442-449
TrainCreateLoss ==
    /\ train_pc = "loss"
    /\ IF LossError(loss_name) # "none"
       THEN /\ train_pc' = "raised"
            /\ train_err' = LossError(loss_name)
            /\ created' = created \cup (IF LossSet(loss_name) THEN {"loss"} ELSE {})
            /\ UNCHANGED epoch_t
       ELSE /\ created' = created \cup {"loss", "metrics"}
            /\ epoch_t' = init_epoch + 1
            /\ train_pc' = "callback"
            /\ UNCHANGED train_err
    /\ UNCHANGED <<notTrain, trainConfig, hook_log, stepVars>>

\* lines 453-456, and the test of the loop at line 458
TrainBegin ==
    /\ train_pc = "callback"
    /\ created' = created \cup {"callback"}
    /\ hook_log' = Append(hook_log, <<"on_train_begin", 0>>)
    /\ train_pc' = IF InEpochRange(epoch_t, epochs) THEN "epoch_begin" ELSE "train_end"
    /\ UNCHANGED <<notTrain, trainConfig, train_err, epoch_t, stepVars>>

\* line 459, and lines 559-567 of the train_step it enters
EpochBegin ==
    /\ train_pc = "epoch_begin"
    /\ hook_log' = Append(hook_log, <<"on_epoch_begin", epoch_t>>)
    /\ batch' = 0
    /\ fetched' = 0
    /\ opt_steps' = 0
    /\ batch_end_calls' = 0
    /\ train_pc' = "train_step"
    /\ UNCHANGED <<notTrain, trainConfig, train_err, created, epoch_t>>

\* lines 569-642: one pass of the loop of train_step; the loader has an item.
\* A batch that is not the break is logged when its forward pass starts
\* (line 574).
TrainStepBatch ==
    /\ train_pc = "train_step"
    /\ LoaderHasNext(infinite, loader_batches, fetched)
    /\ fetched' = fetched + 1
    /\ IF BreakCond(batch, per_epoch_steps)
       THEN /\ train_pc' = "validation"
            /\ UNCHANGED <<train_err, hook_log, batch, opt_steps, batch_end_calls>>
       ELSE \E grad_problem \in BOOLEAN :
              IF grad_problem
              THEN /\ train_pc' = "raised"
                   /\ train_err' = "Exception"
                   /\ hook_log' = Append(hook_log, <<"train_batch", batch>>)
                   /\ UNCHANGED <<batch, opt_steps, batch_end_calls>>
              ELSE /\ opt_steps' = opt_steps + 1
                   /\ hook_log' = hook_log \o <<(<<"train_batch", batch>>),
                                                (<<"on_train_batch_end", batch>>)>>
                   /\ batch_end_calls' = batch_end_calls + 1
                   /\ batch' = batch + 1
                   /\ UNCHANGED <<train_pc, train_err>>
    /\ UNCHANGED <<notTrain, trainConfig, created, epoch_t>>

\* lines 569, 644-648: the loader is exhausted and train_step returns
TrainStepExhausted ==
    /\ train_pc = "train_step"
    /\ ~LoaderHasNext(infinite, loader_batches, fetched)
    /\ train_pc' = "validation"
    /\ UNCHANGED <<notTrain, trainConfig, train_err, created, hook_log,
                   epoch_t, stepVars>>

\* line 463
ValidationStep ==
    /\ train_pc = "validation"
    /\ hook_log' = Append(hook_log, <<"validation_step", epoch_t>>)
    /\ train_pc' = "epoch_end"
    /\ UNCHANGED <<notTrain, trainConfig, train_err, created, epoch_t, stepVars>>

\* line 465, and the next test of the loop at line 458
EpochEnd ==
    /\ train_pc = "epoch_end"
    /\ hook_log' = Append(hook_log, <<"on_epoch_end", epoch_t>>)
    /\ epoch_t' = epoch_t + 1
    /\ train_pc' = IF InEpochRange(epoch_t + 1, epochs)
                   THEN "epoch_begin" ELSE "train_end"
    /\ UNCHANGED <<notTrain, trainConfig, train_err, created, stepVars>>

\* line 467
TrainEnd ==
    /\ train_pc = "train_end"
    /\ hook_log' = Append(hook_log, <<"on_train_end", epochs>>)
    /\ train_pc' = "returned"
    /\ UNCHANGED <<notTrain, trainConfig, train_err, created, epoch_t, stepVars>>

\* lines 470-499: evaluation() makes no test of infinite or per_epoch_steps;
\* it builds the test dataset (line 476) and its loader (lines 480-485)
\* before create_model, and calls no create_lr
EvalCreateModel ==
    /\ train_pc = "eval_model"
    /\ IF OptimizeError(optimizer_name) # "none"
       THEN /\ created' = created \cup {"dataset", "data_loader", "model"}
            /\ train_pc' = "raised"
            /\ train_err' = OptimizeError(optimizer_name)
       ELSE /\ created' = created \cup {"dataset", "data_loader", "model",
                                         "optimizer"}
            /\ train_pc' = "eval_loss"
            /\ UNCHANGED train_err
    /\ UNCHANGED <<notTrain, trainConfig, hook_log, epoch_t, stepVars>>

\* lines 501-508: epoch is what init_model_weights returns
EvalCreateLoss ==
    /\ train_pc = "eval_loss"
    /\ IF LossError(loss_name) # "none"
       THEN /\ train_pc' = "raised"
            /\ train_err' = LossError(loss_name)
            /\ created' = created \cup (IF LossSet(loss_name) THEN {"loss"} ELSE {})
            /\ UNCHANGED epoch_t
       ELSE /\ created' = created \cup {"loss", "metrics"}
            /\ epoch_t' = init_epoch
            /\ train_pc' = "eval_callback"
            /\ UNCHANGED train_err
    /\ UNCHANGED <<notTrain, trainConfig, hook_log, stepVars>>

\* lines 510-513, with create_evaluation_callback (lines 333-349)
EvalBegin ==
    /\ train_pc = "eval_callback"
    /\ created' = created \cup {"callback"}
    /\ hook_log' = Append(hook_log, <<"on_evaluation_begin", 0>>)
    /\ train_pc' = "eval_validation"
    /\ UNCHANGED <<notTrain, trainConfig, train_err, epoch_t, stepVars>>

\* line 515
EvalValidationStep ==
    /\ train_pc = "eval_validation"
    /\ hook_log' = Append(hook_log, <<"validation_step", epoch_t>>)
    /\ train_pc' = "eval_end"
    /\ UNCHANGED <<notTrain, trainConfig, train_err, created, epoch_t, stepVars>>

\* line 517
EvalEnd ==
    /\ train_pc = "eval_end"
    /\ hook_log' = Append(hook_log, <<"on_evaluation_end", epoch_t>>)
    /\ train_pc' = "returned"
    /\ UNCHANGED <<notTrain, trainConfig, train_err, created, epoch_t, stepVars>>

TrainNext ==
    \/ TrainCheck
    \/ TrainCreateDataset
    \/ TrainCreateModel
    \/ TrainCreateLoss
    \/ TrainBegin
    \/ EpochBegin
    \/ TrainStepBatch
    \/ TrainStepExhausted
    \/ ValidationStep
    \/ EpochEnd
    \/ TrainEnd
    \/ EvalCreateModel
    \/ EvalCreateLoss
    \/ EvalBegin
    \/ EvalValidationStep
    \/ EvalEnd

SpecTrain == TrainInit /\ [][TrainNext]_vars

\* the called method is one thread of control: a step that can be taken is
\* taken
SpecTrainFair == SpecTrain /\ WF_vars(TrainNext)

\* ------------------------------------------------------------------------
\* get_repo_path: posixpath.dirname, os.path.join and os.path.exists
\* ------------------------------------------------------------------------
\* a path is a sequence of characters; GitEntry stands for the name ".git"
Sep == "/"
GitEntry == ".git"
PathChars == {Sep, "a"}

RECURSIVE PathsOfLen(_)
PathsOfLen(n) ==
    IF n = 0 THEN {<<>>}
    ELSE {Append(p, c) : p \in PathsOfLen(n - 1), c \in PathChars}
Paths == UNION {PathsOfLen(n) : n \in 0..MaxPathLen}

\* p.rfind(sep) + 1
RECURSIVE RFindSep(_, _)
RFindSep(p, i) == IF i = 0 \/ p[i] = Sep THEN i ELSE RFindSep(p, i - 1)

\* head.rstrip(sep)
RECURSIVE RStripSep(_)
RStripSep(h) ==
    IF h # <<>> /\ h[Len(h)] = Sep THEN RStripSep(SubSeq(h, 1, Len(h) - 1)) ELSE h

\* head != sep * len(head)
AllSep(h) == \A i \in 1..Len(h) : h[i] = Sep

\* posixpath.dirname
Dirname(p) ==
    LET head == SubSeq(p, 1, RFindSep(p, Len(p)))
    IN  IF head # <<>> /\ ~AllSep(head) THEN RStripSep(head) ELSE head

\* posixpath.join(a, b) for a relative b
Join(a, b) ==
    IF a = <<>> THEN b
    ELSE IF a[Len(a)] = Sep THEN a \o b
    ELSE a \o <<Sep>> \o b

\* the components of a path: the runs of characters between separators
RECURSIVE Components(_, _)
Components(p, cur) ==
    IF p = <<>> THEN (IF cur = <<>> THEN <<>> ELSE <<cur>>)
    ELSE IF Head(p) = Sep
         THEN (IF cur = <<>> THEN <<>> ELSE <<cur>>) \o Components(Tail(p), <<>>)
         ELSE Components(Tail(p), Append(cur, Head(p)))

\* the absolute components a path names, from the working directory if relative
Resolve(p) ==
    IF p # <<>> /\ p[1] = Sep THEN Components(p, <<>>)
    ELSE cwd \o Components(p, <<>>)

\* os.path.exists of a path whose last component is .git
Exists(p) ==
    LET comps == Resolve(p)
    IN  /\ comps # <<>>
        /\ comps[Len(comps)] = <<GitEntry>>
        /\ SubSeq(comps, 1, Len(comps) - 1) \in git_dirs

\* line 17, the test of the loop
WalkCond(dir) == dir # <<>> /\ ~Exists(Join(dir, <<GitEntry>>))

\* the directories of the modelled file system
Dirs == {<<>>, <<(<<"a">>)>>, <<(<<"a">>), (<<"a">>)>>, <<(<<"a", "a">>)>>}

RepoInit ==
    /\ path \in Paths
    /\ cwd \in {<<>>, <<(<<"a">>)>>}
    /\ git_dirs \in SUBSET Dirs
    /\ repo_pc = "start"
    /\ script_directory = <<>>
    /\ repo_iters = 0
    /\ GenIdle
    /\ DsnIdle
    /\ TrainIdle
    /\ NormIdle
    /\ XfIdle

\* line 14
RepoStart ==
    /\ repo_pc = "start"
    /\ script_directory' = Dirname(path)
    /\ repo_pc' = "loop"
    /\ UNCHANGED <<path, cwd, git_dirs, repo_iters, notRepo>>

\* lines 17-18: one pass of the loop
RepoWalkUp ==
    /\ repo_pc = "loop"
    /\ WalkCond(script_directory)
    /\ repo_iters < MaxWalk
    /\ script_directory' = Dirname(script_directory)
    /\ repo_iters' = repo_iters + 1
    /\ UNCHANGED <<path, cwd, git_dirs, repo_pc, notRepo>>

\* lines 17, 20: the loop ends and the directory is returned
RepoReturn ==
    /\ repo_pc = "loop"
    /\ ~WalkCond(script_directory)
    /\ repo_pc' = "returned"
    /\ UNCHANGED <<path, cwd, git_dirs, script_directory, repo_iters, notRepo>>

RepoNext == RepoStart \/ RepoWalkUp \/ RepoReturn

SpecRepo == RepoInit /\ [][RepoNext]_vars

\* ------------------------------------------------------------------------
\* MaxMinNorm
\* ------------------------------------------------------------------------
\* A tensor is [rank |-> 1, data |-> <<x1, ..>>] or [rank |-> 2, data |->
\* <<row1, ..>>]; its entries are integers before the transform and quotients
\* [num, den] (the float num / den; nan or +-inf for den = 0) after it.  A
\* statistic is a vector with one entry per column; a 0-dim tensor is held as
\* the vector it broadcasts to.
MAX_VAL == "max_val"
MIN_VAL == "min_val"

Cols(t) == IF t.rank = 1 THEN Len(t.data) ELSE Len(t.data[1])

SetMax(S) == CHOOSE x \in S : \A y \in S : y <= x
SetMin(S) == CHOOSE x \in S : \A y \in S : x <= y
Entries(v) == {v[i] : i \in 1..Len(v)}

\* torch.max(array, 0).values, torch.min(array, 0).values (lines 277-286)
CalculateMaxMin(t) ==
    IF t.rank = 1
    THEN [max |-> [c \in 1..Cols(t) |-> SetMax(Entries(t.data))],
          min |-> [c \in 1..Cols(t) |-> SetMin(Entries(t.data))]]
    ELSE [max |-> [c \in 1..Cols(t) |-> SetMax({t.data[r][c] : r \in 1..Len(t.data)})],
          min |-> [c \in 1..Cols(t) |-> SetMin({t.data[r][c] : r \in 1..Len(t.data)})]]

\* torch.max(max_val), torch.min(min_val) (lines 258, 271)
Coarse(mm) ==
    [max |-> [c \in 1..Len(mm.max) |-> SetMax(Entries(mm.max))],
     min |-> [c \in 1..Len(mm.min) |-> SetMin(Entries(mm.min))]]

\* (array - min_norm_val) / (max_norm_val - min_norm_val) (line 300)
NormalMaxMinTransform(t, mm) ==
    IF t.rank = 1
    THEN [rank |-> 1,
          data |-> [c \in 1..Cols(t) |->
                      [num |-> t.data[c] - mm.min[c], den |-> mm.max[c] - mm.min[c]]]]
    ELSE [rank |-> 2,
          data |-> [r \in 1..Len(t.data) |-> [c \in 1..Cols(t) |->
                      [num |-> t.data[r][c] - mm.min[c],
                       den |-> mm.max[c] - mm.min[c]]]]]

\* lines 249-259 (and 262-272) for one entry of a dict
NormEntry(name, fea) ==
    IF name \in DOMAIN feature_config
    THEN LET picked == IF global_scaling
                       THEN [max |-> feature_config[name][MAX_VAL],
                             min |-> feature_config[name][MIN_VAL]]
                       ELSE CalculateMaxMin(fea)
             mm == IF coarse_dim THEN Coarse(picked) ELSE picked
         IN  NormalMaxMinTransform(fea, mm)
    ELSE fea

\* the tensors and statistics of the model
Values == 0..MaxVal
Vectors(n) == [1..n -> Values]
\* the shapes of the tensors: [columns] and [rows, columns]
VectorShapes == {<<1>>, <<2>>}
MatrixShapes == {<<1, 1>>, <<1, 2>>, <<2, 1>>, <<2, 2>>}
Tensors ==
    UNION {{[rank |-> 1, data |-> v] : v \in Vectors(sh[1])} : sh \in VectorShapes}
    \cup UNION {{[rank |-> 2, data |-> m] : m \in [1..sh[1] -> Vectors(sh[2])]} :
                  sh \in MatrixShapes}
\* statistics of a data set: per column, min <= max
Stats(n) ==
    {[max_val |-> mx, min_val |-> mn] : mx \in Vectors(n), mn \in Vectors(n)}
StatsOf(n) == {st \in Stats(n) : \A c \in 1..n : st[MIN_VAL][c] <= st[MAX_VAL][c]}

\* a dict with the one entry name -> value
Dict1(name, value) == [k \in {name} |-> value]

\* the sample holds one tensor, "pressure" in context or "node_coord" in
\* feature; the configuration normalizes it or holds no entry
NormInit ==
    /\ global_scaling \in BOOLEAN
    /\ coarse_dim \in BOOLEAN
    /\ \E t \in Tensors, configured \in BOOLEAN, in_context \in BOOLEAN :
         \E st \in StatsOf(Cols(t)) :
           LET name == IF in_context THEN "pressure" ELSE "node_coord"
           IN  /\ context = IF in_context THEN Dict1(name, t) ELSE <<>>
               /\ feature = IF in_context THEN <<>> ELSE Dict1(name, t)
               /\ feature_config = IF configured THEN Dict1(name, st) ELSE <<>>
               /\ (~configured => st = CHOOSE x \in StatsOf(Cols(t)) : TRUE)
    /\ norm_pc = "call"
    /\ GenIdle
    /\ DsnIdle
    /\ TrainIdle
    /\ RepoIdle
    /\ XfIdle

\* lines 246-274
NormCall ==
    /\ norm_pc = "call"
    /\ context' = [name \in DOMAIN context |-> NormEntry(name, context[name])]
    /\ feature' = [name \in DOMAIN feature |-> NormEntry(name, feature[name])]
    /\ norm_pc' = "returned"
    /\ UNCHANGED <<global_scaling, coarse_dim, feature_config, notNorm>>

NormNext == NormCall

SpecNorm == NormInit /\ [][NormNext]_vars

\* ------------------------------------------------------------------------
\* The sample of a DataTransform: two dicts, name -> value
\* ------------------------------------------------------------------------
\* A dict is the sequence of its items [name, val] in insertion order, the
\* order items() yields them in; no name occurs twice.
Names(d) == {d[i].name : i \in 1..Len(d)}
Lookup(d, n) == d[CHOOSE i \in 1..Len(d) : d[i].name = n].val
\* d[n] = v: the item of n keeps its place, a new name goes to the end
Store(d, n, v) ==
    IF n \in Names(d)
    THEN [i \in 1..Len(d) |-> IF d[i].name = n THEN [name |-> n, val |-> v] ELSE d[i]]
    ELSE Append(d, [name |-> n, val |-> v])
\* the items of a dict as a set of pairs
Items(d) == {<<d[i].name, d[i].val>> : i \in 1..Len(d)}

\* the dicts over some of the names S, in any order, with values from V
Orders(S) ==
    UNION {{o \in [1..k -> S] : \A a, b \in 1..k : a # b => o[a] # o[b]} :
             k \in 0..Cardinality(S)}
Dicts(S, V) ==
    UNION {{[i \in 1..Len(o) |-> [name |-> o[i], val |-> v[i]]] :
              v \in [1..Len(o) -> V]} : o \in Orders(S)}

\* the names a sample may hold: "displacement" may occur in both dicts
ContextNames == {"pressure", "displacement"}
FeatureNames == {"node_coord", "displacement"}
\* the names a configuration may hold: "stress" occurs in no sample
ConfigNames == {"displacement", "node_coord", "stress"}

\* ------------------------------------------------------------------------
\* CovertToModelInputs
\* ------------------------------------------------------------------------
\* a slip in lines 383 and 392: the test on labels_name inverted
IsInput_Inverted(name, lbls) == name \in lbls

\* lines 383, 392: name not in self.labels_name
IsInput(name, lbls) == name \notin lbls

\* line 380
InitialLabels(multi) == IF multi THEN <<>> ELSE None

\* lines 383-389 (and 392-398): the body of the loops for one item
ConvertItem(acc, item, lbls, multi) ==
    IF IsInput(item.name, lbls)
    THEN [acc EXCEPT !.inputs = Store(@, item.name, item.val)]
    ELSE IF multi
         THEN [acc EXCEPT !.labels = Store(@, item.name, item.val)]
         ELSE [acc EXCEPT !.labels = item.val]

\* lines 382, 391: one loop over the items of a dict
RECURSIVE ConvertItems(_, _, _, _)
ConvertItems(acc, items, lbls, multi) ==
    IF items = <<>> THEN acc
    ELSE ConvertItems(ConvertItem(acc, Head(items), lbls, multi),
                      Tail(items), lbls, multi)

\* lines 377-400
CovertToModelInputs(ctx, fea, lbls, multi) ==
    LET start == [inputs |-> <<>>, labels |-> InitialLabels(multi)]
        after_context == ConvertItems(start, ctx, lbls, multi)
        after_feature == ConvertItems(after_context, fea, lbls, multi)
    IN  <<after_feature.inputs, after_feature.labels>>

\* a tensor is stood for by a number 0..MaxVal that tells it from the others
ConvertInit ==
    /\ xf_context \in Dicts(ContextNames, 0..MaxVal)
    /\ xf_feature \in Dicts(FeatureNames, 0..MaxVal)
    /\ xf_given = <<xf_context, xf_feature>>
    /\ xf_out = <<>>
    /\ xf_err = "none"
    /\ xf_pc = "call"
    /\ labels_name \in SUBSET ConfigNames
    /\ multi_obj \in BOOLEAN
    /\ context_list = <<>>
    /\ feature_list = <<>>
    /\ tfrecord = FALSE
    /\ clamp_config = <<>>
    /\ dim_config = <<>>
    /\ GenIdle
    /\ DsnIdle
    /\ TrainIdle
    /\ RepoIdle
    /\ NormIdle

\* lines 365-400
ConvertCall ==
    /\ xf_pc = "call"
    /\ xf_out' = CovertToModelInputs(xf_context, xf_feature, labels_name, multi_obj)
    /\ xf_pc' = "returned"
    /\ UNCHANGED <<xf_context, xf_feature, xf_given, xf_err, xfConfig, notXf>>

ConvertNext == ConvertCall

SpecConvert == ConvertInit /\ [][ConvertNext]_vars

\* ------------------------------------------------------------------------
\* ToTensor and TFRecordToTensor
\* ------------------------------------------------------------------------
\* a configuration dict, read with 'in' and [] only: a function on its names
Configs(S, V) == UNION {[T -> V] : T \in SUBSET S}

\* the keys of convert_type (lines 37-40, 84-87)
TypeNames == {"float", "int"}
\* the type names a description may hold: "double" is one convert_type lacks
DescribedTypes == TypeNames \cup {"double"}
\* self.convert_type[type_name]: a key it lacks raises KeyError
ConvertType(type_name) ==
    IF type_name = "float" THEN "float32"
    ELSE IF type_name = "int" THEN "int64"
    ELSE "KeyError"

\* A value of the sample is a numpy array (ToTensor) or a list
\* (TFRecordToTensor) that holds a number of halves h, the float h / 2.
\* torch.tensor(fea, dtype=...) keeps it for float32 and drops the fraction
\* for int64.
SampleValues(lists) ==
    {[kind |-> IF lists THEN "list" ELSE "ndarray", data |-> h] : h \in 0..MaxVal}
Cast(h, dtype) == IF dtype = "int64" THEN (h \div 2) * 2 ELSE h
TorchTensor(fea, dtype) == [dtype |-> dtype, data |-> Cast(fea.data, dtype)]
\* np.array(fea) (lines 64, 70)
NpArray(fea) == [kind |-> "ndarray", data |-> fea.data]

\* a slip in lines 116-119: the feature loop reads the context description
FeatureList_OfContext(ctx_list, fea_list) == ctx_list

\* lines 116-119 (and 67-70): the description the feature loop reads
FeatureList(ctx_list, fea_list) == fea_list

\* lines 109-113 (and 60-64, 66-70, 115-119): one loop over the items of a
\* dict, filling a new dict until a name is not described or its type name
\* is no key of convert_type
RECURSIVE ToTensorItems(_, _, _)
ToTensorItems(acc, items, list) ==
    IF items = <<>> THEN [err |-> "none", dict |-> acc]
    ELSE IF Head(items).name \notin DOMAIN list
         THEN [err |-> "ValueError", dict |-> acc]
         ELSE IF ConvertType(list[Head(items).name]) = "KeyError"
         THEN [err |-> "KeyError", dict |-> acc]
         ELSE ToTensorItems(
                  Store(acc, Head(items).name,
                        TorchTensor(Head(items).val,
                                    ConvertType(list[Head(items).name]))),
                  Tail(items), list)

\* lines 104-121 (and 55-72, on np.array(fea))
ToTensor(ctx, fea, ctx_list, fea_list) ==
    LET c == ToTensorItems(<<>>, ctx, ctx_list)
        f == ToTensorItems(<<>>, fea, FeatureList(ctx_list, fea_list))
    IN  IF c.err # "none" THEN [err |-> c.err, out |-> <<>>]
        ELSE IF f.err # "none" THEN [err |-> f.err, out |-> <<>>]
        ELSE [err |-> "none", out |-> <<c.dict, f.dict>>]

\* np.array(fea) of every value of a dict
NpArrays(d) == [i \in 1..Len(d) |-> [name |-> d[i].name, val |-> NpArray(d[i].val)]]

ToTensorInit ==
    /\ tfrecord \in BOOLEAN
    /\ xf_context \in Dicts(ContextNames, SampleValues(tfrecord))
    /\ xf_feature \in Dicts(FeatureNames, SampleValues(tfrecord))
    /\ xf_given = <<xf_context, xf_feature>>
    /\ xf_out = <<>>
    /\ xf_err = "none"
    /\ xf_pc = "call"
    /\ labels_name = {}
    /\ multi_obj = FALSE
    /\ context_list \in Configs(ContextNames, DescribedTypes)
    /\ feature_list \in Configs(FeatureNames, DescribedTypes)
    /\ clamp_config = <<>>
    /\ dim_config = <<>>
    /\ GenIdle
    /\ DsnIdle
    /\ TrainIdle
    /\ RepoIdle
    /\ NormIdle

\* ToTensor.__call__, lines 93-121
ToTensorCall ==
    /\ xf_pc = "call"
    /\ ~tfrecord
    /\ LET r == ToTensor(xf_context, xf_feature, context_list, feature_list)
       IN  /\ xf_err' = r.err
           /\ xf_out' = r.out
           /\ xf_pc' = IF r.err = "none" THEN "returned" ELSE "raised"
    /\ UNCHANGED <<xf_context, xf_feature, xf_given, xfConfig, notXf>>

\* TFRecordToTensor.__call__, lines 46-72
TFRecordToTensorCall ==
    /\ xf_pc = "call"
    /\ tfrecord
    /\ LET r == ToTensor(NpArrays(xf_context), NpArrays(xf_feature),
                         context_list, feature_list)
       IN  /\ xf_err' = r.err
           /\ xf_out' = r.out
           /\ xf_pc' = IF r.err = "none" THEN "returned" ELSE "raised"
    /\ UNCHANGED <<xf_context, xf_feature, xf_given, xfConfig, notXf>>

ToTensorNext == ToTensorCall \/ TFRecordToTensorCall

SpecToTensor == ToTensorInit /\ [][ToTensorNext]_vars

\* ------------------------------------------------------------------------
\* ClampTensor
\* ------------------------------------------------------------------------
Max(a, b) == IF a >= b THEN a ELSE b

\* a slip in lines 430, 436: the upper limit left out
Clamp_NoMax(x, min_val, max_val) == Max(x, min_val)

\* Tensor.clamp(min_val, max_val) of one element: min(max(x, min_val), max_val),
\* which is max_val for every x when min_val > max_val
Clamp(x, min_val, max_val) == Min(Max(x, min_val), max_val)

\* lines 427-430 (and 433-436) for one entry; a tensor is the vector of its
\* elements
ClampEntry(name, fea, config) ==
    IF name \in DOMAIN config
    THEN [i \in 1..Len(fea) |->
            Clamp(fea[i], config[name][MIN_VAL], config[name][MAX_VAL])]
    ELSE fea

\* lines 426-430 (and 432-436): the loop writes the dict it walks
ClampDict(d, config) ==
    [i \in 1..Len(d) |->
        [name |-> d[i].name, val |-> ClampEntry(d[i].name, d[i].val, config)]]

\* the tensors of a sample: one or two elements
ClampTensors == Vectors(1) \cup Vectors(2)
\* the limits of one name, in either order
Limits == {[max_val |-> mx, min_val |-> mn] : mx \in Values, mn \in Values}

ClampInit ==
    /\ xf_context \in Dicts({"displacement"}, ClampTensors)
    /\ xf_feature \in Dicts(FeatureNames, ClampTensors)
    /\ xf_given = <<xf_context, xf_feature>>
    /\ xf_out = <<>>
    /\ xf_err = "none"
    /\ xf_pc = "call"
    /\ labels_name = {}
    /\ multi_obj = FALSE
    /\ context_list = <<>>
    /\ feature_list = <<>>
    /\ tfrecord = FALSE
    /\ clamp_config \in Configs({"displacement"}, Limits)
    /\ dim_config = <<>>
    /\ GenIdle
    /\ DsnIdle
    /\ TrainIdle
    /\ RepoIdle
    /\ NormIdle

\* lines 413-438: the dicts passed in are written and returned
ClampCall ==
    /\ xf_pc = "call"
    /\ xf_context' = ClampDict(xf_context, clamp_config)
    /\ xf_feature' = ClampDict(xf_feature, clamp_config)
    /\ xf_out' = <<xf_context', xf_feature'>>
    /\ xf_pc' = "returned"
    /\ UNCHANGED <<xf_given, xf_err, xfConfig, notXf>>

ClampNext == ClampCall

SpecClamp == ClampInit /\ [][ClampNext]_vars

\* ------------------------------------------------------------------------
\* UnSqueezeDataDim and SqueezeDataDim
\* ------------------------------------------------------------------------
\* A tensor is its shape, the sequence of its sizes; neither transform moves
\* an element.  A dim d counts from 0, a negative one from the end.
\* Tensor.unsqueeze(dim): dim in [-(n + 1), n] for rank n, else IndexError
UnSqueeze(shape, dim) ==
    LET n == Len(shape)
        d == IF dim < 0 THEN dim + n + 1 ELSE dim
    IN  IF dim < -(n + 1) \/ dim > n
        THEN [err |-> "IndexError", shape |-> shape]
        ELSE [err |-> "none",
              shape |-> SubSeq(shape, 1, d) \o <<1>> \o SubSeq(shape, d + 1, n)]

\* a slip in lines 466, 470: squeeze() without dim drops every size 1
Squeeze_EveryOne(shape, dim) ==
    [err |-> "none", shape |-> SelectSeq(shape, LAMBDA size : size # 1)]

\* Tensor.squeeze(dim): dim in [-n, n - 1] for rank n (in [-1, 0] for rank 0),
\* else IndexError; the size at dim is dropped if it is 1
Squeeze(shape, dim) ==
    LET n == Len(shape)
        m == IF n = 0 THEN 1 ELSE n
        d == IF dim < 0 THEN dim + m ELSE dim
    IN  IF dim < -m \/ dim > m - 1
        THEN [err |-> "IndexError", shape |-> shape]
        ELSE IF n > 0 /\ shape[d + 1] = 1
        THEN [err |-> "none", shape |-> SubSeq(shape, 1, d) \o SubSeq(shape, d + 2, n)]
        ELSE [err |-> "none", shape |-> shape]

\* lines 499-500 (unsqueeze) and 465-466 (squeeze) for one entry
ReshapeEntry(name, fea, config, unsqueeze) ==
    IF name \notin DOMAIN config THEN [err |-> "none", shape |-> fea]
    ELSE IF unsqueeze THEN UnSqueeze(fea, config[name])
    ELSE Squeeze(fea, config[name])

\* lines 498-500, 502-504 (and 464-466, 468-470): the loop writes the dict it
\* walks, up to the entry that raises
ReshapeDict(d, config, unsqueeze) ==
    LET made == [i \in 1..Len(d) |-> ReshapeEntry(d[i].name, d[i].val, config, unsqueeze)]
        failed == {i \in 1..Len(d) : made[i].err # "none"}
        stop == IF failed = {} THEN Len(d) + 1 ELSE SetMin(failed)
    IN  [err |-> IF failed = {} THEN "none" ELSE made[stop].err,
         dict |-> [i \in 1..Len(d) |->
                     IF i < stop THEN [name |-> d[i].name, val |-> made[i].shape]
                     ELSE d[i]]]

\* the shapes of the sample: ranks 0, 1 and 2
Shapes == {<<>>, <<1>>, <<2>>, <<1, 1>>, <<1, 2>>, <<2, 1>>, <<2, 2>>}
\* the dims of a configuration: the valid ones and one beyond on either side
ConfigDims == (-4)..3

SqueezeInit ==
    /\ xf_context \in Dicts({"displacement"}, Shapes)
    /\ xf_feature \in Dicts(FeatureNames, Shapes)
    /\ xf_given = <<xf_context, xf_feature>>
    /\ xf_out = <<>>
    /\ xf_err = "none"
    /\ xf_pc = "call"
    /\ labels_name = {}
    /\ multi_obj = FALSE
    /\ context_list = <<>>
    /\ feature_list = <<>>
    /\ tfrecord = FALSE
    /\ clamp_config = <<>>
    /\ dim_config \in Configs({"displacement"}, ConfigDims)
    /\ GenIdle
    /\ DsnIdle
    /\ TrainIdle
    /\ RepoIdle
    /\ NormIdle

\* UnSqueezeDataDim.__call__, lines 485-506
UnSqueezeCall ==
    /\ xf_pc = "call"
    /\ LET c == ReshapeDict(xf_context, dim_config, TRUE)
           f == ReshapeDict(xf_feature, dim_config, TRUE)
       IN  IF c.err # "none"
           THEN /\ xf_context' = c.dict
                /\ xf_err' = c.err
                /\ xf_pc' = "raised"
                /\ UNCHANGED <<xf_feature, xf_out>>
           ELSE /\ xf_context' = c.dict
                /\ xf_feature' = f.dict
                /\ xf_err' = f.err
                /\ xf_pc' = IF f.err # "none" THEN "raised" ELSE "squeeze"
                /\ xf_out' = IF f.err # "none" THEN xf_out ELSE <<c.dict, f.dict>>
    /\ UNCHANGED <<xf_given, xfConfig, notXf>>

\* SqueezeDataDim.__call__, lines 451-472, on what UnSqueezeDataDim returned
SqueezeCall ==
    /\ xf_pc = "squeeze"
    /\ LET c == ReshapeDict(xf_context, dim_config, FALSE)
           f == ReshapeDict(xf_feature, dim_config, FALSE)
       IN  IF c.err # "none"
           THEN /\ xf_context' = c.dict
                /\ xf_err' = c.err
                /\ xf_pc' = "raised"
                /\ UNCHANGED <<xf_feature, xf_out>>
           ELSE /\ xf_context' = c.dict
                /\ xf_feature' = f.dict
                /\ xf_err' = f.err
                /\ xf_pc' = IF f.err # "none" THEN "raised" ELSE "returned"
                /\ xf_out' = IF f.err # "none" THEN xf_out ELSE <<c.dict, f.dict>>
    /\ UNCHANGED <<xf_given, xfConfig, notXf>>

SqueezeNext == UnSqueezeCall \/ SqueezeCall

SpecSqueeze == SqueezeInit /\ [][SqueezeNext]_vars

\* ------------------------------------------------------------------------
\* Properties of _data_generation (SpecGen)
\* ------------------------------------------------------------------------
\* the 'index' values read over files 0, 1, ... and groups idx_0, idx_1, ...
RECURSIVE ReadIndices(_)
ReadIndices(fs) ==
    IF fs = <<>> THEN <<>>
    ELSE [g \in 1..Len(Head(fs)) |-> Head(fs)[g].index] \o ReadIndices(Tail(fs))

\* the down-sampling count of the dataset's own data type
OwnCount ==
    IF data_type = TRAIN_NAME THEN train_down_sampling_node
    ELSE val_down_sampling_node

\* every group stored so far, written to a file or still in datasets
RECURSIVE Flatten(_)
Flatten(fs) == IF fs = <<>> THEN <<>> ELSE Head(fs) \o Flatten(Tail(fs))
StoredGroups == Flatten(files) \o datasets

\* the inner loop has handled at least one sample (stored it or raised on it)
SampleHandled == Len(StoredGroups) > 0 \/ (gen_pc = "raised" /\ Len(chunks) > 0)

\* C1: after _data_generation every chunk file it wrote holds exactly
\* chunk_file_size sample groups, for every sample_indices and chunk_file_size.
C1_EveryFileHoldsChunkFileSize ==
    \A f \in 1..Len(files) : Len(files[f]) = chunk_file_size

\* C2: once _data_generation has ended, the 'index' values read over the files
\* in order and the groups in order are sample_indices: each index is written
\* exactly once, in its original position.
C2_EveryIndexWrittenOnce ==
    gen_pc \in {"done", "raised"} => ReadIndices(files) = sample_indices

\* On a run that completes, the read-back is sample_indices (the part of C2 the
\* code keeps).
C2_ReadBackOnCompletion ==
    gen_pc = "done" => ReadIndices(files) = sample_indices

\* C3: when the count of the dataset's own data type is not configured, a run
\* whose split succeeded raises no error and stores all rows of every sample,
\* unchanged.
C3_NoDownSamplingWhenUnset ==
    (OwnCount = None /\ Len(chunks) > 0) =>
        /\ gen_err = "none"
        /\ \A g \in 1..Len(StoredGroups) :
             /\ StoredGroups[g].node_rows = Rows(num_nodes)
             /\ StoredGroups[g].label_rows = Rows(num_nodes)

\* what lines 82-93 do to one sample, whatever is drawn
SampleOutcome(dtype, tk, vk, n) ==
    LET s1 == CHOOSE s \in FirstDraws(dtype, tk, vk, n) : TRUE
        s2 == CHOOSE s \in SecondDraws(dtype, tk, vk, n) : TRUE
        r == SampleRows(dtype, tk, vk, n, s1, s2)
    IN  [err |-> r.err, calls |-> r.calls, rows |-> Len(r.inputs)]

\* the same three observations of the run at hand, for its last sample
ObservedOutcome ==
    [err |-> gen_err, calls |-> ds_calls,
     rows |-> IF gen_err # "none" THEN 0
              ELSE Len(StoredGroups[Len(StoredGroups)].node_rows)]

\* C4: for a train dataset, a run that differs only in val_down_sampling_node
\* calls _down_sampling_node as often per sample, stores as many rows and
\* raises the same error or none.
C4_ValSettingIrrelevantForTrain ==
    (data_type = TRAIN_NAME /\ SampleHandled) =>
        \A v \in NodeCounts :
            SampleOutcome(TRAIN_NAME, train_down_sampling_node, v, num_nodes)
                = ObservedOutcome

\* ------------------------------------------------------------------------
\* Properties of _down_sampling_node (SpecDsn)
\* ------------------------------------------------------------------------
\* C5: a call with the own data type's count greater than the number of rows
\* of record_inputs raises ValueError and returns no arrays.
C5_RaisesWhenCountExceedsRows ==
    (dsn_pc # "call" /\ OwnCount # None /\ OwnCount > Len(dsn_inputs)) =>
        /\ dsn_pc = "raised"
        /\ dsn_result.err = "ValueError"
        /\ dsn_result.inputs = <<>>
        /\ dsn_result.outputs = <<>>

C5_Witness ==
    /\ dsn_pc = "raised"
    /\ dsn_ndim = 2
    /\ OwnCount # None
    /\ OwnCount > Len(dsn_inputs)
    /\ Len(dsn_inputs) > 0
    /\ dsn_result.err = "ValueError"

\* C6: a call on arrays of n rows with the own data type's count k at most n
\* returns k rows of record_inputs and k rows of record_outputs, taken at the
\* same k pairwise distinct positions in the same order.
C6_SameDistinctRows ==
    (dsn_pc # "call" /\ dsn_ndim = 2 /\ OwnCount # None
       /\ OwnCount <= Len(dsn_inputs)) =>
        /\ dsn_pc = "returned"
        /\ Len(dsn_result.inputs) = OwnCount
        /\ Len(dsn_result.outputs) = OwnCount
        /\ \E sel \in Selections(Len(dsn_inputs), OwnCount) :
             \A i \in 1..OwnCount :
                /\ dsn_result.inputs[i] = dsn_inputs[sel[i]]
                /\ dsn_result.outputs[i] = dsn_outputs[sel[i]]

C6_Witness ==
    /\ dsn_pc = "returned"
    /\ OwnCount = 2
    /\ Len(dsn_inputs) = 3
    /\ dsn_result.inputs = <<3, 1>>
    /\ dsn_result.outputs = <<3, 1>>

\* ------------------------------------------------------------------------
\* Properties of train and train_step (SpecTrain)
\* ------------------------------------------------------------------------
\* C7: with infinite true and per_epoch_steps not set, train() raises
\* ValueError before anything is created and before any hook fires; it never
\* gets further than the check.
C7_RaisesBeforeAnySetup ==
    (trainer_call = "train" /\ infinite /\ per_epoch_steps = None) =>
        /\ train_pc \in {"check", "raised"}
        /\ (train_pc = "raised" => train_err = "ValueError")
        /\ created = {}
        /\ hook_log = <<>>

C7_Witness ==
    /\ trainer_call = "train"
    /\ infinite
    /\ per_epoch_steps = None
    /\ epochs > 0
    /\ train_pc = "raised"
    /\ train_err = "ValueError"

\* with per_epoch_steps = n set, a train_step takes at most n + 1 items from
\* the loader; every optimizer step has its on_train_batch_end call, there are
\* never more than min(n, m) of them, and exactly min(n, m) when train_step
\* returns
StepsBoundedByPerEpochSteps ==
    (trainer_call = "train" /\ per_epoch_steps # None
       /\ train_pc \in {"train_step", "validation", "raised"}
       /\ "callback" \in created) =>
        /\ fetched <= per_epoch_steps + 1
        /\ opt_steps = batch_end_calls
        /\ opt_steps = batch
        /\ opt_steps <= StepsPossible(infinite, loader_batches, per_epoch_steps)
        /\ (train_pc = "validation" =>
              opt_steps = StepsPossible(infinite, loader_batches, per_epoch_steps))

\* C8: with per_epoch_steps = n set, train_step ends, also on a loader that
\* never does, and it performs exactly min(n, m) optimizer steps and
\* on_train_batch_end calls, none after the n-th.
C8_TrainStepEndsWithinSteps ==
    /\ []StepsBoundedByPerEpochSteps
    /\ (per_epoch_steps # None /\ train_pc = "train_step")
          ~> (train_pc \in {"validation", "raised"})

C8_Witness ==
    /\ trainer_call = "train"
    /\ infinite
    /\ per_epoch_steps = 2
    /\ train_pc = "validation"
    /\ opt_steps = 2
    /\ batch_end_calls = 2
    /\ fetched = 3

\* the order train() is to keep: where a log that kept it so far stands
\* after event e
HookStep(st, e) ==
    IF st.phase = "start" /\ e = <<"on_train_begin", 0>>
    THEN [phase |-> "between", t |-> init_epoch + 1, b |-> 0]
    ELSE IF st.phase = "between" /\ st.t <= epochs /\ e = <<"on_epoch_begin", st.t>>
    THEN [phase |-> "batches", t |-> st.t, b |-> 0]
    ELSE IF st.phase = "between" /\ st.t > epochs /\ e = <<"on_train_end", epochs>>
    THEN [phase |-> "ended", t |-> st.t, b |-> 0]
    ELSE IF st.phase = "batches" /\ e = <<"train_batch", st.b>>
    THEN [phase |-> "in_batch", t |-> st.t, b |-> st.b]
    ELSE IF st.phase = "in_batch" /\ e = <<"on_train_batch_end", st.b>>
    THEN [phase |-> "batches", t |-> st.t, b |-> st.b + 1]
    ELSE IF st.phase = "batches" /\ e = <<"validation_step", st.t>>
    THEN [phase |-> "validated", t |-> st.t, b |-> st.b]
    ELSE IF st.phase = "validated" /\ e = <<"on_epoch_end", st.t>>
    THEN [phase |-> "between", t |-> st.t + 1, b |-> 0]
    ELSE [phase |-> "out_of_order", t |-> st.t, b |-> st.b]

RECURSIVE HookOrder(_, _)
HookOrder(st, log) ==
    IF log = <<>> THEN st ELSE HookOrder(HookStep(st, Head(log)), Tail(log))

\* C14: the hooks of train() fire in a fixed order: on_train_begin once and
\* first; then for each epoch t from init_epoch + 1 to epochs, in turn,
\* on_epoch_begin(t), the training batches of t, each followed by its
\* on_train_batch_end, the validation pass of t and on_epoch_end(t); and
\* on_train_end once, after the last on_epoch_end, when train() returns.  A
\* batch stays without its on_train_batch_end only where train() has raised
\* on it.
C14_HooksInOrder ==
    trainer_call = "train" =>
        LET st == HookOrder([phase |-> "start", t |-> 0, b |-> 0], hook_log)
        IN  /\ st.phase # "out_of_order"
            /\ (train_pc = "returned" <=> st.phase = "ended")
            /\ (st.phase = "in_batch" => train_pc = "raised")

\* a train() that returned after two epochs of two batches each
C14_Witness ==
    /\ trainer_call = "train"
    /\ train_pc = "returned"
    /\ init_epoch = 0
    /\ epochs = 2
    /\ per_epoch_steps = None
    /\ loader_batches = 2
    /\ Len(hook_log) = 16
    /\ hook_log[2] = <<"on_epoch_begin", 1>>
    /\ hook_log[6] = <<"on_train_batch_end", 1>>
    /\ hook_log[8] = <<"on_epoch_end", 1>>
    /\ hook_log[16] = <<"on_train_end", 2>>

\* ------------------------------------------------------------------------
\* Properties of get_repo_path (SpecRepo)
\* ------------------------------------------------------------------------
\* C9: get_repo_path terminates for every path: each pass of the loop moves to
\* a proper ancestor, so there are at most as many passes as the path has
\* characters; what it returns is a directory holding .git, or the empty
\* string.
C9_WalkTerminates ==
    /\ repo_iters <= Len(path)
    /\ (repo_pc = "returned" =>
          \/ Exists(Join(script_directory, <<GitEntry>>))
          \/ script_directory = <<>>)

\* ------------------------------------------------------------------------
\* Properties of MaxMinNorm (SpecNorm)
\* ------------------------------------------------------------------------
\* the float num / den lies in [0, 1]; nan and +-inf (den = 0) do not
InUnitRange(q) ==
    \/ (q.den > 0 /\ 0 <= q.num /\ q.num <= q.den)
    \/ (q.den < 0 /\ q.den <= q.num /\ q.num <= 0)

AllInUnitRange(t) ==
    IF t.rank = 1
    THEN \A c \in 1..Len(t.data) : InUnitRange(t.data[c])
    ELSE \A r \in 1..Len(t.data) : \A c \in 1..Len(t.data[r]) :
            InUnitRange(t.data[r][c])

\* C10: after MaxMinNorm every element of every tensor named in the
\* normalization config lies in [0, 1], for both global_scaling settings and
\* both coarse_dim settings.
C10_NormalizedIntoUnitRange ==
    norm_pc = "returned" =>
        /\ \A name \in DOMAIN context \cap DOMAIN feature_config :
              AllInUnitRange(context[name])
        /\ \A name \in DOMAIN feature \cap DOMAIN feature_config :
              AllInUnitRange(feature[name])

\* ------------------------------------------------------------------------
\* Properties of CovertToModelInputs (SpecConvert)
\* ------------------------------------------------------------------------
\* the items of the sample as it was passed in
GivenItems == Items(xf_given[1]) \cup Items(xf_given[2])
\* those whose name is a label name, and those whose name is not
GivenLabelItems == {it \in GivenItems : it[1] \in labels_name}
GivenInputItems == {it \in GivenItems : it[1] \notin labels_name}

\* C11 as stated: the inputs CovertToModelInputs returns hold exactly the
\* entries of context and feature whose name is not in labels; with multi_obj
\* true the labels are a dict holding exactly the entries whose name is in
\* labels; with multi_obj false they are the value of a label name, or None
\* when no label name occurs in the sample.
C11_ExactlyTheEntries ==
    xf_pc = "returned" =>
        /\ Items(xf_out[1]) = GivenInputItems
        /\ IF multi_obj
           THEN Items(xf_out[2]) = GivenLabelItems
           ELSE IF GivenLabelItems = {}
                THEN xf_out[2] = None
                ELSE \E it \in GivenLabelItems : xf_out[2] = it[2]

\* the names of the sample, and the entry of a name that the two loops leave:
\* the feature's when feature has the name, else the context's
GivenNames == Names(xf_given[1]) \cup Names(xf_given[2])
HeldValue(name) ==
    IF name \in Names(xf_given[2])
    THEN Lookup(xf_given[2], name)
    ELSE Lookup(xf_given[1], name)
HeldItems(S) == {<<name, HeldValue(name)>> : name \in S}
\* the value of the last item with a label name, context's items first
LastLabelValue ==
    LET all == xf_given[1] \o xf_given[2]
        at == {i \in 1..Len(all) : all[i].name \in labels_name}
    IN  all[SetMax(at)].val

\* C11: the inputs CovertToModelInputs returns hold one entry for each name of
\* context or feature that is not in labels, the feature's entry where both
\* dicts have the name; with multi_obj true the labels are a dict that holds,
\* in the same way, one entry for each name that is in labels; with multi_obj
\* false they are the value of the last entry with a label name (context's
\* entries come first), or None when the sample holds no such entry.
C11_OneEntryPerNameFeatureLast ==
    xf_pc = "returned" =>
        /\ Items(xf_out[1]) = HeldItems(GivenNames \ labels_name)
        /\ IF multi_obj
           THEN Items(xf_out[2]) = HeldItems(GivenNames \cap labels_name)
           ELSE IF GivenLabelItems = {}
                THEN xf_out[2] = None
                ELSE xf_out[2] = LastLabelValue

\* a name held by both dicts with different values, next to a label entry
C11_Witness ==
    /\ xf_pc = "returned"
    /\ Names(xf_given[1]) = {"pressure", "displacement"}
    /\ Names(xf_given[2]) = {"displacement", "node_coord"}
    /\ labels_name = {"node_coord"}
    /\ multi_obj
    /\ Lookup(xf_given[1], "displacement") = 0
    /\ Lookup(xf_given[2], "displacement") = 1
    /\ Names(xf_out[1]) = {"pressure", "displacement"}
    /\ Lookup(xf_out[1], "displacement") = 1
    /\ Names(xf_out[2]) = {"node_coord"}

\* ------------------------------------------------------------------------
\* Properties of ToTensor and TFRecordToTensor (SpecToTensor)
\* ------------------------------------------------------------------------
\* the sample holds a name its description does not
UndescribedName ==
    \/ ~(Names(xf_given[1]) \subseteq DOMAIN context_list)
    \/ ~(Names(xf_given[2]) \subseteq DOMAIN feature_list)

\* C12 as stated: ToTensor and TFRecordToTensor raise ValueError when context
\* holds a name absent from context_description or feature holds a name
\* absent from feature_description; otherwise the two dicts they return have
\* exactly the keys of the two dicts passed in; either way the dicts passed
\* in are as they were.
C12_ValueErrorOrSameKeys ==
    xf_pc # "call" =>
        /\ xf_context = xf_given[1]
        /\ xf_feature = xf_given[2]
        /\ IF UndescribedName
           THEN xf_pc = "raised" /\ xf_err = "ValueError" /\ xf_out = <<>>
           ELSE /\ xf_pc = "returned"
                /\ xf_err = "none"
                /\ Names(xf_out[1]) = Names(xf_given[1])
                /\ Names(xf_out[2]) = Names(xf_given[2])

\* what is wrong with entry i of dict d under the description list
Offence(d, i, list) ==
    IF d[i].name \notin DOMAIN list THEN "ValueError"
    ELSE IF list[d[i].name] \notin TypeNames THEN "KeyError"
    ELSE "none"
Offending(d, list) == {i \in 1..Len(d) : Offence(d, i, list) # "none"}
\* the offence of the first offending entry, context's entries first
FirstOffence ==
    IF Offending(xf_given[1], context_list) # {}
    THEN Offence(xf_given[1], SetMin(Offending(xf_given[1], context_list)),
                 context_list)
    ELSE IF Offending(xf_given[2], feature_list) # {}
    THEN Offence(xf_given[2], SetMin(Offending(xf_given[2], feature_list)),
                 feature_list)
    ELSE "none"

\* C12: ToTensor and TFRecordToTensor go through context's entries and then
\* feature's and raise at the first that offends: ValueError for a name
\* absent from the description of its dict, KeyError for a name described
\* with a type name other than 'float' and 'int'.  When no entry offends, the
\* two dicts they return have exactly the keys of the two dicts passed in.
\* Either way the dicts passed in are as they were.
C12_FirstOffenceRaisesOrSameKeys ==
    xf_pc # "call" =>
        /\ xf_context = xf_given[1]
        /\ xf_feature = xf_given[2]
        /\ IF FirstOffence # "none"
           THEN xf_pc = "raised" /\ xf_err = FirstOffence /\ xf_out = <<>>
           ELSE /\ xf_pc = "returned"
                /\ xf_err = "none"
                /\ Names(xf_out[1]) = Names(xf_given[1])
                /\ Names(xf_out[2]) = Names(xf_given[2])

\* a return with the shared name described in both, as different types
C12_Witness_Returned ==
    /\ xf_pc = "returned"
    /\ Names(xf_given[1]) = {"pressure", "displacement"}
    /\ Names(xf_given[2]) = {"displacement", "node_coord"}
    /\ context_list["displacement"] = "int"
    /\ feature_list["displacement"] = "float"
    /\ Lookup(xf_given[1], "displacement") = [kind |-> "list", data |-> 1]
    /\ Lookup(xf_out[1], "displacement") = [dtype |-> "int64", data |-> 0]
    /\ Lookup(xf_given[2], "displacement") = [kind |-> "list", data |-> 1]
    /\ Lookup(xf_out[2], "displacement") = [dtype |-> "float32", data |-> 1]

\* an entry with an unknown type name ahead of an entry that is not described:
\* the KeyError comes first
C12_Witness ==
    /\ xf_pc = "raised"
    /\ xf_err = "KeyError"
    /\ Len(xf_given[1]) = 2
    /\ xf_given[1][1].name = "pressure"
    /\ xf_given[1][2].name = "displacement"
    /\ DOMAIN context_list = {"pressure"}
    /\ context_list["pressure"] = "double"
    /\ xf_context = xf_given[1]

\* ------------------------------------------------------------------------
\* Properties of ClampTensor (SpecClamp)
\* ------------------------------------------------------------------------
\* x lies between the limits lim inclusive
Between(x, lim) == lim[MIN_VAL] <= x /\ x <= lim[MAX_VAL]

\* x lies between the limits lim inclusive where min_val <= max_val; it is
\* max_val where min_val > max_val
WithinLimits(x, lim) ==
    IF lim[MIN_VAL] <= lim[MAX_VAL] THEN Between(x, lim) ELSE x = lim[MAX_VAL]

\* entry i of the returned dict d against entry i of the dict passed in:
\* every element of a configured tensor in the relation Rel to its limits
ClampedOrSame(d, given, i, Rel(_, _)) ==
    /\ d[i].name = given[i].name
    /\ IF d[i].name \in DOMAIN clamp_config
       THEN /\ Len(d[i].val) = Len(given[i].val)
            /\ \A e \in 1..Len(d[i].val) :
                 Rel(d[i].val[e], clamp_config[d[i].name])
       ELSE d[i].val = given[i].val

\* C13 as stated: after ClampTensor every element of each tensor whose name
\* is in the clamp config lies between that name's min and max inclusive, and
\* every context and feature entry whose name is not in the clamp config is
\* returned unchanged.
C13_ClampedIntoLimits ==
    xf_pc = "returned" =>
        /\ Len(xf_out[1]) = Len(xf_given[1])
        /\ Len(xf_out[2]) = Len(xf_given[2])
        /\ \A i \in 1..Len(xf_out[1]) :
             ClampedOrSame(xf_out[1], xf_given[1], i, Between)
        /\ \A i \in 1..Len(xf_out[2]) :
             ClampedOrSame(xf_out[2], xf_given[2], i, Between)

\* C13: after ClampTensor every element of each tensor whose name is in the
\* clamp config lies between that name's min and max inclusive where the
\* config has min <= max, and is max where the config has min > max; every
\* context and feature entry whose name is not in the clamp config is
\* returned unchanged.
C13_ClampedIntoLimitsOrToMax ==
    xf_pc = "returned" =>
        /\ Len(xf_out[1]) = Len(xf_given[1])
        /\ Len(xf_out[2]) = Len(xf_given[2])
        /\ \A i \in 1..Len(xf_out[1]) :
             ClampedOrSame(xf_out[1], xf_given[1], i, WithinLimits)
        /\ \A i \in 1..Len(xf_out[2]) :
             ClampedOrSame(xf_out[2], xf_given[2], i, WithinLimits)

\* one element raised to min, one lowered to max, one entry left alone
C13_Witness_Ordered ==
    /\ xf_pc = "returned"
    /\ "displacement" \in DOMAIN clamp_config
    /\ clamp_config["displacement"] = [max_val |-> 1, min_val |-> 1]
    /\ xf_given[1] = <<[name |-> "displacement", val |-> <<0, 2>>]>>
    /\ xf_out[1] = <<[name |-> "displacement", val |-> <<1, 1>>]>>
    /\ xf_given[2] = <<[name |-> "node_coord", val |-> <<0, 2>>]>>
    /\ xf_out[2] = xf_given[2]

\* limits with min above max: every element comes back as max, below min;
\* one entry left alone
C13_Witness ==
    /\ xf_pc = "returned"
    /\ "displacement" \in DOMAIN clamp_config
    /\ clamp_config["displacement"] = [max_val |-> 0, min_val |-> 2]
    /\ xf_given[1] = <<[name |-> "displacement", val |-> <<1, 2>>]>>
    /\ xf_out[1] = <<[name |-> "displacement", val |-> <<0, 0>>]>>
    /\ xf_given[2] = <<[name |-> "node_coord", val |-> <<0, 2>>]>>
    /\ xf_out[2] = xf_given[2]

\* ------------------------------------------------------------------------
\* Properties of UnSqueezeDataDim and SqueezeDataDim (SpecSqueeze)
\* ------------------------------------------------------------------------
\* dim is a valid dim to unsqueeze a tensor of this shape at
ValidDim(shape, dim) == -(Len(shape) + 1) <= dim /\ dim <= Len(shape)

\* the configured dim is valid for every configured tensor of the sample
AllDimsValid ==
    \A k \in 1..2 : \A i \in 1..Len(xf_given[k]) :
        xf_given[k][i].name \in DOMAIN dim_config =>
            ValidDim(xf_given[k][i].val, dim_config[xf_given[k][i].name])

\* the entries of dict d outside the config are those of the dict passed in
UnconfiguredKept(d, given) ==
    /\ Len(d) = Len(given)
    /\ \A i \in 1..Len(d) :
         /\ d[i].name = given[i].name
         /\ (d[i].name \notin DOMAIN dim_config => d[i].val = given[i].val)

\* C16: for every shape and every valid dim, UnSqueezeDataDim and then
\* SqueezeDataDim with the same {name: dim} config return each configured
\* tensor with the shape it had, and the entries whose name is not in the
\* config keep their shape through both transforms.
C16_UnSqueezeThenSqueeze ==
    /\ UnconfiguredKept(xf_context, xf_given[1])
    /\ UnconfiguredKept(xf_feature, xf_given[2])
    /\ (AllDimsValid /\ xf_pc # "call" => xf_pc \in {"squeeze", "returned"})
    /\ (xf_pc = "returned" => xf_out = xf_given)

\* a negative dim on a shape that holds a size 1 already, next to an entry the
\* config does not name
C16_Witness ==
    /\ xf_pc = "returned"
    /\ "displacement" \in DOMAIN dim_config
    /\ dim_config["displacement"] = -2
    /\ xf_given[1] = <<[name |-> "displacement", val |-> <<1, 2>>]>>
    /\ xf_given[2] = <<[name |-> "node_coord", val |-> <<2, 1>>],
                       [name |-> "displacement", val |-> <<1>>]>>
    /\ xf_out = xf_given

====
